---- MODULE Spec2Model ----
(***************************************************************************)
(* render_album.py: one run of the album builder.  The program validates   *)
(* its paths, transcodes every matched source to a numbered intermediate   *)
(* in a temporary directory, concatenates the intermediates and renders    *)
(* the video.  Every external encoder invocation is split into the spawn   *)
(* and the exit of the child process, so that the states in which an       *)
(* invocation is in flight are visible.                                    *)
(***************************************************************************)
EXTENDS Integers, Sequences, FiniteSets, TLC

VARIABLES
    pc,           \* position of the program
    argv,         \* the command line, as argparse sees it
    ffmpegOnPath, \* whether the encoder binary can be spawned at all
    fs,           \* the filesystem: path -> file, for the paths that exist
    before,       \* the filesystem as it was when the run started
    wavs,         \* main: the sorted list of regular files the glob matched
    idx,          \* transcode_wavs_to_flacs: the loop index (1-based)
    flac_paths,   \* transcode_wavs_to_flacs: the intermediates produced so far
    invocations,  \* every encoder process spawned, in spawn order
    exc,          \* the exception in flight, NoExc when there is none
    tmpCreated,   \* whether the run has created its temporary directory
    stdout,       \* text written to the standard output
    stderr,       \* text written to the error stream
    exitCode      \* exit status of the process, NotExited while it runs

vars == <<pc, argv, ffmpegOnPath, fs, before, wavs, idx, flac_paths,
          invocations, exc, tmpCreated, stdout, stderr, exitCode>>

-----------------------------------------------------------------------------
(* Bounds of the model *)

\* number of candidate source names in the input directory
MaxFiles == 2
\* number of lines of output the encoder may print before it exits
MaxOutLines == 1

-----------------------------------------------------------------------------
(* Text: a sequence of tokens; NL is the newline character *)

NL == "\n"

NotExited == -1
Running == -1

FRAMERATE == 30

\* code points of the characters used in file names
Ord(c) ==
    CASE c = "." -> 46
      [] c = "0" -> 48 [] c = "1" -> 49 [] c = "2" -> 50 [] c = "3" -> 51
      [] c = "4" -> 52 [] c = "5" -> 53 [] c = "6" -> 54 [] c = "7" -> 55
      [] c = "8" -> 56 [] c = "9" -> 57
      [] c = "M" -> 77 [] c = "P" -> 80
      [] c = "a" -> 97 [] c = "b" -> 98 [] c = "c" -> 99 [] c = "d" -> 100
      [] c = "f" -> 102 [] c = "k" -> 107 [] c = "l" -> 108 [] c = "m" -> 109
      [] c = "o" -> 111
      [] c = "p" -> 112 [] c = "v" -> 118 [] c = "w" -> 119
      [] OTHER -> 0

\* str.lower() on one character
LowerChar(c) ==
    CASE c = "M" -> "m"
      [] c = "P" -> "p"
      [] OTHER -> c

\* the extension compared as it is written
NotLowered(s) == s

\* str.lower()
Lower(s) == [i \in 1..Len(s) |-> LowerChar(s[i])]

\* str.rfind("."), 0-based, -1 when there is no dot
RFindDot(s) ==
    LET dots == {i \in 1..Len(s) : s[i] = "."}
    IN IF dots = {} THEN -1
       ELSE (CHOOSE i \in dots : \A j \in dots : j <= i) - 1

\* PurePath.suffix of a final path component
Suffix(name) ==
    LET i == RFindDot(name)
    IN IF 0 < i /\ i < Len(name) - 1
       THEN SubSeq(name, i + 1, Len(name))
       ELSE <<>>

\* the decimal digits of n, most significant first
RECURSIVE Digits(_)
Digits(n) ==
    LET d == <<"0", "1", "2", "3", "4", "5", "6", "7", "8", "9">>
    IN IF n < 10 THEN <<d[n + 1]>> ELSE Digits(n \div 10) \o <<d[(n % 10) + 1]>>

\* f"{idx:02d}"
Fmt02d(n) == IF Len(Digits(n)) < 2 THEN <<"0">> \o Digits(n) ELSE Digits(n)

-----------------------------------------------------------------------------
(* Paths and files *)

\* a path is a directory and the name of an entry in it (<<>>: the directory)
RootDir == [dir |-> "root", name |-> <<>>]
TmpDir == [dir |-> "tmp", name |-> <<>>]

\* Path.__truediv__ followed by resolve(): an absolute right operand wins
Join(d, arg) ==
    IF arg.abs THEN [dir |-> "ext", name |-> arg.name]
    ELSE [dir |-> d.dir, name |-> arg.name]

Rel(name) == [abs |-> FALSE, name |-> name]

\* str(path)
PathStr(p) == <<"/", p.dir>> \o (IF p.name = <<>> THEN <<>> ELSE <<"/">> \o p.name)

\* Path.exists()
Exists(fsys, p) == p \in DOMAIN fsys

\* Path.is_file()
IsFile(fsys, p) == p \in DOMAIN fsys /\ fsys[p].kind = "file"

Directory == [kind |-> "dir", by |-> "user", data |-> <<>>]
UserFile == [kind |-> "file", by |-> "user", data |-> <<>>]

\* the filesystem with path p holding file f
WriteFile(fsys, p, f) ==
    [q \in (DOMAIN fsys) \cup {p} |-> IF q = p THEN f ELSE fsys[q]]

\* shutil.rmtree of directory d
RmTree(fsys, d) ==
    [q \in {r \in DOMAIN fsys : r.dir # d.dir} |-> fsys[q]]

\* lexicographic order of two strings by code point
RECURSIVE StrLess(_, _)
StrLess(a, b) ==
    IF a = <<>> THEN b # <<>>
    ELSE IF b = <<>> THEN FALSE
    ELSE IF a[1] = b[1] THEN StrLess(Tail(a), Tail(b))
    ELSE Ord(a[1]) < Ord(b[1])

\* Path.__lt__ for two entries of the same directory
PathLess(p, q) == StrLess(p.name, q.name)

\* the list left in the order of the directory scan
Unsorted(s) == s

\* sorted() of a list of paths
Sorted(s) == SortSeq(s, PathLess)

\* fnmatch of a name against the pattern "*" + tail
Matches(name, tail) ==
    /\ Len(name) >= Len(tail)
    /\ SubSeq(name, Len(name) - Len(tail) + 1, Len(name)) = tail

\* the entries of directory d that Path.glob yields for the pattern
GlobSet(fsys, d, tail) ==
    {p \in DOMAIN fsys : p.dir = d.dir /\ p.name # <<>> /\ Matches(p.name, tail)}

\* every order in which the directory scan may yield the set S
Orders(S) ==
    {f \in [1..Cardinality(S) -> S] : \A i, j \in 1..Cardinality(S) : f[i] = f[j] => i = j}

-----------------------------------------------------------------------------
(* Exceptions *)

NoExc == [type |-> "none", msg |-> <<>>]

\* ensure_exists with the check left out
ensure_exists_unchecked(fsys, path, kind) == NoExc

\* ensure_exists: the exception it raises, NoExc when the path exists
ensure_exists(fsys, path, kind) ==
    IF ~Exists(fsys, path)
    THEN [type |-> "FileNotFoundError", msg |-> <<"Missing ", kind, ": ">> \o PathStr(path)]
    ELSE NoExc

\* ' '.join(cmd), cmd a list of arguments (each a text)
RECURSIVE JoinSpace(_)
JoinSpace(cmd) ==
    IF cmd = <<>> THEN <<>>
    ELSE IF Len(cmd) = 1 THEN cmd[1]
    ELSE cmd[1] \o <<" ">> \o JoinSpace(Tail(cmd))

\* run with the return code ignored
RunNeverRaises(returncode) == FALSE

\* run: whether the finished process makes run raise
RunRaises(returncode) == returncode # 0

\* run: the RuntimeError raised for a failed command
CommandFailed(returncode, cmd, out) ==
    [type |-> "RuntimeError",
     msg |-> <<"Command failed (", ToString(returncode), "): ">> \o JoinSpace(cmd)
             \o <<NL>> \o out]

\* subprocess.run when the executable cannot be started
SpawnFailed ==
    [type |-> "FileNotFoundError",
     msg |-> <<"[Errno 2] No such file or directory: 'ffmpeg'">>]

-----------------------------------------------------------------------------
(* Argument vectors: a list of arguments, each a text *)

\* transcode_wavs_to_flacs: the name of the idx-th intermediate
FlacName(i) == Fmt02d(i) \o <<".", "f", "l", "a", "c">>

\* the intermediate written into the input directory, beside the sources
FlacInRoot(workdir, i) == [dir |-> "root", name |-> FlacName(i)]

\* transcode_wavs_to_flacs: the intermediate written for loop index i
FlacOut(workdir, i) == Join(workdir, Rel(FlacName(i)))

\* transcode_wavs_to_flacs: the manifest
ListPath(workdir) == Join(workdir, Rel(<<"flac_list.txt">>))

\* the combined audio written straight to the output path
ConcatAtOutput(workdir) == Join(RootDir, argv.output)

\* main: the combined audio file
ConcatFlac(workdir) == Join(workdir, Rel(<<"album_concat.flac">>))

\* transcode_wavs_to_flacs: the line appended to the manifest
ManifestLine(flac_out) == <<"file '">> \o PathStr(flac_out) \o <<"'", NL>>

TranscodeCmd(wav, flac_out) ==
    << <<"ffmpeg">>, <<"-y">>, <<"-i">>, PathStr(wav), <<"-c:a">>, <<"flac">>,
       <<"-sample_fmt">>, <<"s32">>, <<"-ar">>, <<"48000">>, PathStr(flac_out) >>

ConcatCmd(list_path, out_flac) ==
    << <<"ffmpeg">>, <<"-y">>, <<"-f">>, <<"concat">>, <<"-safe">>, <<"0">>,
       <<"-i">>, PathStr(list_path), <<"-c:a">>, <<"flac">>,
       <<"-sample_fmt">>, <<"s32">>, <<"-ar">>, <<"48000">>, PathStr(out_flac) >>

AacArgs == << <<"-c:a">>, <<"aac">>, <<"-b:a">>, <<"320k">> >>
CopyArgs == << <<"-c:a">>, <<"copy">> >>

\* render_video: the audio arguments chosen from the output's extension
AudioCodec(output) ==
    LET ext == Lower(Suffix(output.name))
    IN IF ext = <<".", "m", "p", "4">> THEN AacArgs ELSE CopyArgs

RenderCmd(cover, audio, output) ==
    << <<"ffmpeg">>, <<"-y">>, <<"-loop">>, <<"1">>,
       <<"-framerate">>, <<ToString(FRAMERATE)>>,
       <<"-i">>, PathStr(cover), <<"-i">>, PathStr(audio),
       <<"-c:v">>, <<"h264_nvenc">>, <<"-preset">>, <<"p7">>,
       <<"-rc">>, <<"vbr_hq">>, <<"-cq">>, <<"17">>, <<"-b:v">>, <<"8M">>,
       <<"-maxrate">>, <<"12M">>, <<"-bufsize">>, <<"24M">>,
       <<"-profile:v">>, <<"high">>, <<"-pix_fmt">>, <<"yuv420p">>,
       <<"-r">>, <<ToString(FRAMERATE)>> >>
    \o AudioCodec(output)
    \o << <<"-shortest">>, <<"-movflags">>, <<"+faststart">>, PathStr(output) >>

-----------------------------------------------------------------------------
(* The inputs of a run *)

SrcChar == <<"a", "b", "c", "d">>
SourceName(i) == <<SrcChar[i], ".", "w">>
CoverName == <<"c", ".", "p">>

\* values of --pattern: "*.w" and "*", given by what follows the star
Patterns == {<<".", "w">>, <<>>}

\* values of --output
OutputArgs ==
    {Rel(n) : n \in {<<"o", ".", "m", "p", "4">>, <<"o", ".", "M", "P", "4">>,
                     <<"o", ".", "m", "k", "v">>, <<"o">>, <<".", "m", "p", "4">>,
                     <<"o", ".">>, SourceName(1), CoverName}}
    \cup {[abs |-> TRUE, name |-> <<"o", ".", "m", "p", "4">>]}

DefaultArgv(status) ==
    [status |-> status, cover |-> Rel(<<"c", "o", "v", "e", "r", ".", "p", "n", "g">>),
     pattern |-> <<".", "w", "a", "v">>,
     output |-> Rel(<<"F", "U", "L", "L", "-", "G", "P", "U", ".", "m", "p", "4">>)]

\* what parse_args makes of the command line: accepted, rejected, or --help
Argvs ==
    [status : {"ok"}, cover : {Rel(CoverName)}, pattern : Patterns, output : OutputArgs]
    \cup {DefaultArgv("error"), DefaultArgv("help")}

\* the filesystem at the start of a run whose input directory exists
InitialFs(kinds, coverPresent, outPath, outPresent) ==
    LET srcs == {i \in 1..MaxFiles : kinds[i] # "absent"}
        srcPath(i) == Join(RootDir, Rel(SourceName(i)))
        coverPath == Join(RootDir, Rel(CoverName))
        dom == {RootDir} \cup {srcPath(i) : i \in srcs}
               \cup (IF coverPresent THEN {coverPath} ELSE {})
               \cup (IF outPresent THEN {outPath} ELSE {})
    IN [p \in dom |->
          IF p = RootDir \/ \E i \in srcs : p = srcPath(i) /\ kinds[i] = "dir"
          THEN Directory ELSE UserFile]

EmptyFs == [p \in {} |-> Directory]

Init ==
    /\ pc = "parse_args"
    /\ argv \in Argvs
    /\ ffmpegOnPath \in BOOLEAN
    /\ \/ fs = EmptyFs
       \/ \E kinds \in [1..MaxFiles -> {"absent", "file", "dir"}],
             coverPresent \in BOOLEAN, outPresent \in BOOLEAN :
             fs = InitialFs(kinds, coverPresent, Join(RootDir, argv.output), outPresent)
    /\ before = fs
    /\ wavs = <<>>
    /\ idx = 0
    /\ flac_paths = <<>>
    /\ invocations = <<>>
    /\ exc = NoExc
    /\ tmpCreated = FALSE
    /\ stdout = <<>>
    /\ stderr = <<>>
    /\ exitCode = NotExited

-----------------------------------------------------------------------------
(* main, up to the creation of the temporary directory *)

UsageText == <<"usage: render_album.py", NL, "render_album.py: error: ", NL>>
HelpText == <<"usage: render_album.py", NL>>

\* parser.parse_args(): a rejected command line ends the process with status 2,
\* --help prints the help and ends it with status 0
ParseArgs ==
    /\ pc = "parse_args"
    /\ \/ /\ argv.status = "ok"
          /\ pc' = "ensure_root"
          /\ UNCHANGED <<stdout, stderr, exitCode>>
       \/ /\ argv.status = "error"
          /\ stderr' = stderr \o UsageText
          /\ exitCode' = 2
          /\ pc' = "exited"
          /\ UNCHANGED stdout
       \/ /\ argv.status = "help"
          /\ stdout' = stdout \o HelpText
          /\ exitCode' = 0
          /\ pc' = "exited"
          /\ UNCHANGED stderr
    /\ UNCHANGED <<argv, ffmpegOnPath, fs, before, wavs, idx, flac_paths,
                   invocations, exc, tmpCreated>>

\* ensure_exists(root, "input directory")
EnsureRoot ==
    /\ pc = "ensure_root"
    /\ exc' = ensure_exists(fs, RootDir, "input directory")
    /\ pc' = IF exc' = NoExc THEN "ensure_cover" ELSE "except"
    /\ UNCHANGED <<argv, ffmpegOnPath, fs, before, wavs, idx, flac_paths,
                   invocations, tmpCreated, stdout, stderr, exitCode>>

\* ensure_exists(cover, "cover image")
EnsureCover ==
    /\ pc = "ensure_cover"
    /\ exc' = ensure_exists(fs, Join(RootDir, argv.cover), "cover image")
    /\ pc' = IF exc' = NoExc THEN "glob" ELSE "except"
    /\ UNCHANGED <<argv, ffmpegOnPath, fs, before, wavs, idx, flac_paths,
                   invocations, tmpCreated, stdout, stderr, exitCode>>

\* main: whether the list of sources makes the run stop
NoWavs(list) == list = <<>>

\* raise SystemExit("No WAV files found.")
NoWavsExit == [type |-> "SystemExit", msg |-> <<"No WAV files found.">>]

\* sorted(root.glob(pattern)), filtered to regular files; SystemExit with a
\* message when nothing is left.  SystemExit is no Exception, so the handler
\* of the script does not see it: the interpreter prints the message to the
\* error stream and ends the process with status 1
Glob ==
    /\ pc = "glob"
    /\ \E order \in Orders(GlobSet(fs, RootDir, argv.pattern)) :
          wavs' = SelectSeq(Sorted(order), LAMBDA w : IsFile(fs, w))
    /\ IF NoWavs(wavs')
       THEN /\ exc' = NoWavsExit
            /\ stderr' = stderr \o NoWavsExit.msg \o <<NL>>
            /\ exitCode' = 1
            /\ pc' = "exited"
            /\ UNCHANGED stdout
       ELSE /\ stdout' = stdout \o <<"Found ", ToString(Len(wavs')),
                                     " WAV files. Concatenating audio...", NL>>
            /\ pc' = "mkdtemp"
            /\ UNCHANGED <<exc, stderr, exitCode>>
    /\ UNCHANGED <<argv, ffmpegOnPath, fs, before, idx, flac_paths,
                   invocations, tmpCreated>>

-----------------------------------------------------------------------------
(* The encoder, an external process *)

ReturnCodes == {0, 1, 255}

\* n lines of encoder output
RECURSIVE OutLines(_)
OutLines(n) == IF n = 0 THEN <<>> ELSE <<"x", NL>> \o OutLines(n - 1)

EncoderOutputs == {OutLines(n) : n \in 0..MaxOutLines}

Encoded(stage, data) == [kind |-> "file", by |-> stage, data |-> data]
Partial == [kind |-> "file", by |-> "partial", data |-> <<>>]

\* ffmpeg -y can write p: nothing is there, or a regular file to overwrite
CanWrite(fsys, p) == IF Exists(fsys, p) THEN fsys[p].kind = "file" ELSE TRUE

\* the manifest entry a concat line refers to
Referenced(fsys, line) == {p \in DOMAIN fsys : ManifestLine(p) = line}

RECURSIVE Flatten(_)
Flatten(ss) == IF ss = <<>> THEN <<>> ELSE ss[1] \o Flatten(Tail(ss))

\* what a successful encoder run writes to its output
EncoderData(fsys, e) ==
    CASE e.stage = "normalizer" -> <<e.src>>
      [] e.stage = "concatenator" ->
            Flatten([i \in 1..Len(fsys[e.src].data) |->
                        LET r == Referenced(fsys, fsys[e.src].data[i])
                        IN IF r = {} THEN <<>> ELSE fsys[CHOOSE p \in r : TRUE].data])
      [] OTHER -> <<e.cover>> \o (IF Exists(fsys, e.src) THEN fsys[e.src].data ELSE <<>>)

\* the filesystems an encoder run that exits with rc may leave: on success the
\* output is written; on failure the output is untouched or left incomplete
EncoderEffect(fsys, e, rc) ==
    IF rc = 0
    THEN {WriteFile(fsys, e.dst, Encoded(e.stage, EncoderData(fsys, e)))}
    ELSE {fsys} \cup (IF CanWrite(fsys, e.dst) THEN {WriteFile(fsys, e.dst, Partial)} ELSE {})

\* the exits the encoder run e can take
CanExit(fsys, e, rc) == IF rc = 0 THEN CanWrite(fsys, e.dst) ELSE TRUE

\* subprocess.run, up to the start of the child
Spawn(stage, cmd, src, dst, cover, waitAt) ==
    IF ffmpegOnPath
    THEN /\ invocations' = Append(invocations,
                [stage |-> stage, cmd |-> cmd, src |-> src, dst |-> dst,
                 cover |-> cover, rc |-> Running])
         /\ pc' = waitAt
         /\ UNCHANGED exc
    ELSE /\ exc' = SpawnFailed
         /\ pc' = "cleanup"
         /\ UNCHANGED invocations

SetRc(log, rc) == [log EXCEPT ![Len(log)].rc = rc]

Last(log) == log[Len(log)]

-----------------------------------------------------------------------------
(* main, inside the temporary directory *)

\* with tempfile.TemporaryDirectory() as tmpdir
MkTemp ==
    /\ pc = "mkdtemp"
    /\ fs' = WriteFile(fs, TmpDir, Directory)
    /\ tmpCreated' = TRUE
    /\ pc' = "transcode_init"
    /\ UNCHANGED <<argv, ffmpegOnPath, before, wavs, idx, flac_paths,
                   invocations, exc, stdout, stderr, exitCode>>

\* the first index of enumerate(wavs, start=1)
FirstIndex == 1

\* transcode_wavs_to_flacs: the empty list, the empty manifest
TranscodeInit ==
    /\ pc = "transcode_init"
    /\ flac_paths' = <<>>
    /\ fs' = WriteFile(fs, ListPath(TmpDir), Encoded("manifest", <<>>))
    /\ idx' = FirstIndex
    /\ pc' = "transcode_spawn"
    /\ UNCHANGED <<argv, ffmpegOnPath, before, wavs, invocations, exc,
                   tmpCreated, stdout, stderr, exitCode>>

\* transcode_wavs_to_flacs: the command of one track, and run up to the spawn
TranscodeSpawn ==
    /\ pc = "transcode_spawn"
    /\ LET wav == wavs[idx - FirstIndex + 1]
           flac_out == FlacOut(TmpDir, idx)
       IN Spawn("normalizer", TranscodeCmd(wav, flac_out), wav, flac_out, wav,
                "transcode_wait")
    /\ UNCHANGED <<argv, ffmpegOnPath, fs, before, wavs, idx, flac_paths,
                   tmpCreated, stdout, stderr, exitCode>>

\* a loop that stops one track early
MoreTracksButLast(i, list) == i - FirstIndex + 1 < Len(list) - 1

\* transcode_wavs_to_flacs: whether the loop over wavs has another track
MoreTracks(i, list) == i - FirstIndex + 1 < Len(list)

\* list_path.open("a").write(line)
AppendLine(fsys, list_path, line) ==
    WriteFile(fsys, list_path,
              Encoded("manifest",
                      (IF Exists(fsys, list_path) THEN fsys[list_path].data ELSE <<>>)
                      \o <<line>>))

\* transcode_wavs_to_flacs: the child exits; run raises or returns, and after
\* a return the intermediate is recorded and its manifest line appended
TranscodeExit ==
    /\ pc = "transcode_wait"
    /\ \E rc \in ReturnCodes, out \in EncoderOutputs :
         LET e == Last(invocations) IN
         /\ CanExit(fs, e, rc)
         /\ invocations' = SetRc(invocations, rc)
         /\ \E after \in EncoderEffect(fs, e, rc) :
              IF RunRaises(rc)
              THEN /\ exc' = CommandFailed(rc, e.cmd, out)
                   /\ fs' = after
                   /\ pc' = "cleanup"
                   /\ UNCHANGED <<idx, flac_paths>>
              ELSE /\ flac_paths' = Append(flac_paths, e.dst)
                   /\ fs' = AppendLine(after, ListPath(TmpDir), ManifestLine(e.dst))
                   /\ idx' = idx + 1
                   /\ pc' = IF MoreTracks(idx, wavs)
                            THEN "transcode_spawn" ELSE "concat_spawn"
                   /\ UNCHANGED exc
    /\ UNCHANGED <<argv, ffmpegOnPath, before, wavs, tmpCreated, stdout, stderr,
                   exitCode>>

\* concat_flacs: the command, and run up to the spawn
ConcatSpawn ==
    /\ pc = "concat_spawn"
    /\ Spawn("concatenator", ConcatCmd(ListPath(TmpDir), ConcatFlac(TmpDir)),
             ListPath(TmpDir), ConcatFlac(TmpDir), ListPath(TmpDir), "concat_wait")
    /\ UNCHANGED <<argv, ffmpegOnPath, fs, before, wavs, idx, flac_paths,
                   tmpCreated, stdout, stderr, exitCode>>

\* concat_flacs: the child exits; run raises or returns
ConcatExit ==
    /\ pc = "concat_wait"
    /\ \E rc \in ReturnCodes, out \in EncoderOutputs :
         LET e == Last(invocations) IN
         /\ CanExit(fs, e, rc)
         /\ invocations' = SetRc(invocations, rc)
         /\ fs' \in EncoderEffect(fs, e, rc)
         /\ IF RunRaises(rc)
            THEN /\ exc' = CommandFailed(rc, e.cmd, out)
                 /\ pc' = "cleanup"
            ELSE /\ pc' = "render_spawn"
                 /\ UNCHANGED exc
    /\ UNCHANGED <<argv, ffmpegOnPath, before, wavs, idx, flac_paths,
                   tmpCreated, stdout, stderr, exitCode>>

\* main: output_video = (root / args.output).resolve()
OutputVideo == Join(RootDir, argv.output)

\* main: the cover image
Cover == Join(RootDir, argv.cover)

\* main and render_video: the progress line, the command, run up to the spawn
RenderSpawn ==
    /\ pc = "render_spawn"
    /\ stdout' = stdout \o <<"Rendering final video -> ">> \o OutputVideo.name \o <<NL>>
    /\ Spawn("renderer", RenderCmd(Cover, ConcatFlac(TmpDir), OutputVideo),
             ConcatFlac(TmpDir), OutputVideo, Cover, "render_wait")
    /\ UNCHANGED <<argv, ffmpegOnPath, fs, before, wavs, idx, flac_paths,
                   tmpCreated, stderr, exitCode>>

\* render_video: the child exits; run raises or returns
RenderExit ==
    /\ pc = "render_wait"
    /\ \E rc \in ReturnCodes, out \in EncoderOutputs :
         LET e == Last(invocations) IN
         /\ CanExit(fs, e, rc)
         /\ invocations' = SetRc(invocations, rc)
         /\ fs' \in EncoderEffect(fs, e, rc)
         /\ exc' = IF RunRaises(rc) THEN CommandFailed(rc, e.cmd, out) ELSE exc
         /\ pc' = "cleanup"
    /\ UNCHANGED <<argv, ffmpegOnPath, before, wavs, idx, flac_paths,
                   tmpCreated, stdout, stderr, exitCode>>

\* a cleanup placed after the block instead of around it: skipped on an exception
CleanupOnSuccessOnly ==
    /\ pc = "cleanup"
    /\ fs' = IF exc = NoExc THEN RmTree(fs, TmpDir) ELSE fs
    /\ pc' = IF exc = NoExc THEN "epilogue" ELSE "except"
    /\ UNCHANGED <<argv, ffmpegOnPath, before, wavs, idx, flac_paths,
                   invocations, exc, tmpCreated, stdout, stderr, exitCode>>

\* TemporaryDirectory.__exit__: the directory is removed with all it holds,
\* whether the block ended normally or by an exception
Cleanup ==
    /\ pc = "cleanup"
    /\ fs' = RmTree(fs, TmpDir)
    /\ pc' = IF exc = NoExc THEN "epilogue" ELSE "except"
    /\ UNCHANGED <<argv, ffmpegOnPath, before, wavs, idx, flac_paths,
                   invocations, exc, tmpCreated, stdout, stderr, exitCode>>

\* the status of a run that reaches the end of the script
SuccessStatus == 0

\* main: the closing lines; the script ends
Epilogue ==
    /\ pc = "epilogue"
    /\ stdout' = stdout \o <<"Done.", NL, "Output video: ">> \o PathStr(OutputVideo)
                        \o <<NL>>
    /\ exitCode' = SuccessStatus
    /\ pc' = "exited"
    /\ UNCHANGED <<argv, ffmpegOnPath, fs, before, wavs, idx, flac_paths,
                   invocations, exc, tmpCreated, stderr>>

\* sys.exit() without a status
HandlerStatusDefault(e) == 0

\* sys.exit(1) of the handler
HandlerStatus(e) == 1

\* the message printed without the prefix
ErrorTextBare(e) == e.msg \o <<NL>>

\* print(f"Error: {exc}", file=sys.stderr)
ErrorText(e) == <<"Error: ">> \o e.msg \o <<NL>>

\* except Exception as exc: the error line, then sys.exit(1)
Except ==
    /\ pc = "except"
    /\ stderr' = stderr \o ErrorText(exc)
    /\ exitCode' = HandlerStatus(exc)
    /\ pc' = "exited"
    /\ UNCHANGED <<argv, ffmpegOnPath, fs, before, wavs, idx, flac_paths,
                   invocations, exc, tmpCreated, stdout>>

Next ==
    \/ ParseArgs
    \/ EnsureRoot
    \/ EnsureCover
    \/ Glob
    \/ MkTemp
    \/ TranscodeInit
    \/ TranscodeSpawn
    \/ TranscodeExit
    \/ ConcatSpawn
    \/ ConcatExit
    \/ RenderSpawn
    \/ RenderExit
    \/ Cleanup
    \/ Epilogue
    \/ Except

Spec == Init /\ [][Next]_vars

-----------------------------------------------------------------------------
(* Vocabulary of the properties *)

\* the name ends with the text that follows the star of the pattern
EndsWith(name, tail) ==
    \E k \in 0..Len(name) : SubSeq(name, k + 1, Len(name)) = tail

\* the regular files of the input directory that the pattern selects, as the
\* run found them
RegularMatches ==
    {p \in DOMAIN before :
        /\ p.dir = "root" /\ p.name # <<>>
        /\ before[p].kind = "file"
        /\ EndsWith(p.name, argv.pattern)}

\* a precedes b in lexicographic order: they agree up to a position where a
\* has ended or holds the smaller character
Precedes(a, b) ==
    \E k \in 1..Len(b) :
        /\ \A j \in 1..(k - 1) : j <= Len(a) /\ a[j] = b[j]
        /\ IF k <= Len(a) THEN Ord(a[k]) < Ord(b[k]) ELSE k = Len(a) + 1

\* position of source p in the sorted order of the sources
Rank(p) == Cardinality({q \in RegularMatches : Precedes(q.name, p.name)}) + 1

\* the two-digit numbers 01, 02, ...
Numbered ==
    << <<"0", "1">>, <<"0", "2">>, <<"0", "3">>, <<"0", "4">>, <<"0", "5">>,
       <<"0", "6">>, <<"0", "7">>, <<"0", "8">>, <<"0", "9">> >>

\* the intermediate numbered i of the scratch directory
Intermediate(i) == [dir |-> "tmp", name |-> Numbered[i] \o <<".", "f", "l", "a", "c">>]

ManifestPath == [dir |-> "tmp", name |-> <<"flac_list.txt">>]

\* the lines of the manifest in filesystem f (none when there is no manifest)
ManifestData(f) == IF ManifestPath \in DOMAIN f THEN f[ManifestPath].data ELSE <<>>

\* the files of the scratch directory that the Normalizer has completed
Intermediates == {p \in DOMAIN fs : p.dir = "tmp" /\ fs[p].by = "normalizer"}

\* the invocations that have ended with a non-zero exit code
FailedInvocations ==
    {i \in 1..Len(invocations) : invocations[i].rc # 0 /\ invocations[i].rc # Running}

InFlight == {i \in 1..Len(invocations) : invocations[i].rc = Running}

Terminal == pc = "exited"

-----------------------------------------------------------------------------
(* C1 *)

ValidationFails ==
    /\ argv.status = "ok"
    /\ \/ RootDir \notin DOMAIN before
       \/ [dir |-> "root", name |-> argv.cover.name] \notin DOMAIN before
       \/ RegularMatches = {}

\* C1: when the input directory is missing, or the cover image is missing, or
\* the pattern selects no regular file, no encoder process is spawned at any
\* point of the run, the run never reaches its successful end, and it ends
\* with a non-zero status.
C1_NoSpawnUnlessValidated ==
    ValidationFails =>
        /\ invocations = <<>>
        /\ pc # "epilogue"
        /\ Terminal => exitCode # 0

\* a finished run whose directory and cover exist and whose pattern selects
\* only a directory
C1_Witness ==
    /\ Terminal
    /\ argv.status = "ok"
    /\ RootDir \in DOMAIN before
    /\ [dir |-> "root", name |-> argv.cover.name] \in DOMAIN before
    /\ RegularMatches = {}
    /\ \E p \in DOMAIN before : p.name # <<>> /\ before[p].kind = "dir"
    /\ invocations = <<>>

-----------------------------------------------------------------------------
(* C2 *)

NormalizerDone == pc \in {"concat_spawn", "concat_wait", "render_spawn", "render_wait"}

\* C2: once every Normalizer invocation of a run over N >= 1 sources has
\* succeeded, the scratch directory holds exactly the intermediates 01..N,
\* intermediate i was transcoded from the i-th source in sorted order, and
\* the manifest has exactly N lines, line i naming intermediate i.
C2_NumberedInSortOrder ==
    NormalizerDone =>
        LET N == Cardinality(RegularMatches) IN
        /\ N >= 1
        /\ Intermediates = {Intermediate(i) : i \in 1..N}
        /\ \A p \in RegularMatches : fs[Intermediate(Rank(p))].data = <<p>>
        /\ Len(ManifestData(fs)) = N
        /\ \A i \in 1..N :
              ManifestData(fs)[i] =
                  <<"file '", "/", "tmp", "/">> \o Intermediate(i).name \o <<"'", NL>>

\* the Normalizer has finished three or more sources
C2_Witness ==
    /\ pc = "concat_spawn"
    /\ Cardinality(RegularMatches) >= 3
    /\ Len(ManifestData(fs)) >= 3

-----------------------------------------------------------------------------
(* C3 *)

\* C3: in every terminal state of a run that created a scratch directory,
\* the scratch directory and every file in it are gone.
C3_ScratchDestroyed ==
    (Terminal /\ tmpCreated) => \A p \in DOMAIN fs : p.dir # "tmp"

\* a run that ended on a failed invocation after it had created the scratch
\* directory and completed an intermediate in it
C3_Witness ==
    /\ Terminal
    /\ tmpCreated
    /\ FailedInvocations # {}
    /\ Len(invocations) >= 2
    /\ exitCode = 1

-----------------------------------------------------------------------------
(* C4 *)

C4_FailedIsLast ==
    \A i \in FailedInvocations :
        /\ i = Len(invocations)
        /\ \A j \in 1..Len(invocations) : j # i => invocations[j].cmd # invocations[i].cmd
        /\ \A k \in 1..Len(ManifestData(fs)) :
              ManifestData(fs)[k] # <<"file '">> \o PathStr(invocations[i].dst) \o <<"'", NL>>

C4_NothingAfterFailure ==
    FailedInvocations # {} =>
        /\ invocations' = invocations
        /\ Len(ManifestData(fs')) <= Len(ManifestData(fs))

\* C4: once an invocation has returned a non-zero exit code, it is the last
\* invocation of the run: no further process is spawned, the failed command
\* is not issued again, and the manifest gets no line for the failed track
\* (it gets no further line at all).
C4_AbortOnFirstFailure ==
    [](C4_FailedIsLast) /\ [][C4_NothingAfterFailure]_vars

\* a finished run whose second Normalizer invocation failed
C4_Witness ==
    /\ Terminal
    /\ Len(invocations) = 2
    /\ invocations[2].stage = "normalizer"
    /\ invocations[2].rc = 255
    /\ invocations[1].rc = 0

-----------------------------------------------------------------------------
(* C5 *)

RendererSucceeded ==
    \E i \in 1..Len(invocations) :
        invocations[i].stage = "renderer" /\ invocations[i].rc = 0

\* C5 as stated: every way the program ends gives exit code 0 or 1, and 0
\* exactly when the Renderer invocation succeeded.
C5_OnlyZeroOrOne ==
    Terminal => /\ exitCode \in {0, 1}
                /\ exitCode = 0 <=> RendererSucceeded

\* C5, amended: a run whose command line was accepted ends with 0 exactly
\* when the Renderer invocation succeeded and with 1 otherwise; a rejected
\* command line ends the process with 2 and a request for help with 0.
C5_ExitCodes ==
    Terminal =>
        /\ exitCode \in {0, 1, 2}
        /\ exitCode = 2 <=> argv.status = "error"
        /\ exitCode = 0 <=> (RendererSucceeded \/ argv.status = "help")
        /\ argv.status = "ok" => (exitCode \in {0, 1} /\ (exitCode = 0 <=> RendererSucceeded))

\* a run that ended after the Renderer returned 255
C5_Witness ==
    /\ Terminal
    /\ Len(invocations) >= 3
    /\ invocations[Len(invocations)].stage = "renderer"
    /\ invocations[Len(invocations)].rc = 255
    /\ exitCode = 1

-----------------------------------------------------------------------------
(* C6 *)

NewLines(t) == {i \in 1..Len(t) : t[i] = NL}

\* the text is one line: it ends with its only newline
SingleLine(t) == NewLines(t) = {Len(t)} /\ Len(t) >= 2

ScratchGone == \A p \in DOMAIN fs : p.dir # "tmp"

MissingPathError == exc.type = "FileNotFoundError" /\ exc.msg[1] = "Missing "
NoInputsError == exc.type = "SystemExit"
CommandFailedError == exc.type = "RuntimeError"

\* C6 as stated: each error of the taxonomy is rendered as a single line
\* prefixed Error: on the error stream, after the scratch cleanup.
C6_SingleErrorLine ==
    /\ stderr # <<>> => ScratchGone
    /\ (Terminal /\ (MissingPathError \/ NoInputsError \/ CommandFailedError)) =>
          (SingleLine(stderr) /\ stderr[1] = "Error: ")

\* C6, amended: nothing is written to the error stream while the scratch
\* directory exists; a missing input directory or cover image is rendered as
\* a single line prefixed Error:; a failed invocation is rendered as a line
\* prefixed Error: that names the exit code and the command, followed by the
\* encoder's captured output and a closing newline, so as more than one
\* line; zero matched files are rendered as the single line
\* "No WAV files found." without the prefix.
C6_ErrorRendering ==
    /\ stderr # <<>> => ScratchGone
    /\ (Terminal /\ MissingPathError) =>
          (SingleLine(stderr) /\ stderr[1] = "Error: " /\ stderr[2] = "Missing ")
    /\ (Terminal /\ CommandFailedError) =>
          /\ stderr[1] = "Error: "
          /\ stderr[2] = "Command failed ("
          /\ Cardinality(NewLines(stderr)) >= 2
          /\ stderr[Len(stderr)] = NL
          /\ \E i \in FailedInvocations :
                /\ stderr[3] = ToString(invocations[i].rc)
                /\ \A k \in 1..Len(invocations[i].cmd[1]) :
                      stderr[4 + k] = invocations[i].cmd[1][k]
    /\ (Terminal /\ NoInputsError) => stderr = <<"No WAV files found.", NL>>

\* a run that ended on a failed invocation whose encoder had printed a line
C6_Witness ==
    /\ Terminal
    /\ CommandFailedError
    /\ tmpCreated
    /\ Cardinality(NewLines(stderr)) = 3

-----------------------------------------------------------------------------
(* C7 *)

OutputPath ==
    IF argv.output.abs THEN [dir |-> "ext", name |-> argv.output.name]
    ELSE [dir |-> "root", name |-> argv.output.name]

RendererInvoked == \E i \in 1..Len(invocations) : invocations[i].stage = "renderer"

Unchanged(p) ==
    /\ p \in DOMAIN fs <=> p \in DOMAIN before
    /\ p \in DOMAIN fs => fs[p] = before[p]

\* C7 as stated: in every terminal state of a run in which an invocation of
\* any stage failed, no file exists at the output path.
C7_NoOutputAfterFailure ==
    (Terminal /\ FailedInvocations # {}) => OutputPath \notin DOMAIN fs

\* C7, amended: as long as the Renderer has not been invoked, the output path
\* holds what it held before the run; so in every terminal state of a run
\* that failed before the Renderer stage no output video has been created,
\* and a file that was at the output path before the run is still there.
C7_OutputUntouchedBeforeRenderer ==
    ~RendererInvoked => Unchanged(OutputPath)

\* a run in which the Concatenator failed, ended, with a file at the output
\* path from before the run
C7_Witness ==
    /\ Terminal
    /\ FailedInvocations # {}
    /\ invocations[Len(invocations)].stage = "concatenator"
    /\ OutputPath \in DOMAIN before
    /\ OutputPath \in DOMAIN fs

-----------------------------------------------------------------------------
(* C8 *)

CoverPath == [dir |-> "root", name |-> argv.cover.name]

\* C8 as stated: every matched source file and the cover image is unchanged
\* in every state of the run, whatever --pattern and --output are.
C8_SourcesNeverMutated ==
    argv.status = "ok" =>
        \A p \in RegularMatches \cup ({CoverPath} \cap DOMAIN before) : Unchanged(p)

\* C8, amended: a run writes only inside its scratch directory and to the
\* output path: every other path holds in every state what it held before
\* the run, so every matched source file and the cover image is unchanged
\* unless it is the file at the resolved output path.
C8_WritesOnlyScratchAndOutput ==
    \A p \in (DOMAIN fs) \cup (DOMAIN before) :
        (p.dir # "tmp" /\ p # OutputPath) => Unchanged(p)

\* a successful run whose output path is one of two matched sources
C8_Witness ==
    /\ Terminal
    /\ exitCode = 0
    /\ OutputPath \in RegularMatches
    /\ Cardinality(RegularMatches) >= 2
    /\ fs[OutputPath].by = "renderer"

-----------------------------------------------------------------------------
(* C9 *)

\* the name has an extension that reads .mp4 in any letter case
HasMp4Extension(name) ==
    /\ Len(name) >= 5
    /\ name[Len(name) - 3] = "."
    /\ name[Len(name) - 2] \in {"m", "M"}
    /\ name[Len(name) - 1] \in {"p", "P"}
    /\ name[Len(name)] = "4"

\* the argument vector holds the group of arguments, in a row
HasGroup(cmd, group) ==
    \E k \in 0..(Len(cmd) - Len(group)) : SubSeq(cmd, k + 1, k + Len(group)) = group

\* C9: every Renderer command selects AAC at 320k when the output name has
\* an .mp4 extension and stream copy otherwise, and holds exactly one audio
\* codec group.
C9_AudioByExtension ==
    \A i \in 1..Len(invocations) :
        invocations[i].stage = "renderer" =>
            LET cmd == invocations[i].cmd
                aac == HasGroup(cmd, << <<"-c:a">>, <<"aac">>, <<"-b:a">>, <<"320k">> >>)
                copy == HasGroup(cmd, << <<"-c:a">>, <<"copy">> >>)
            IN /\ aac <=> HasMp4Extension(invocations[i].dst.name)
               /\ copy <=> ~aac
               /\ Cardinality({k \in 1..Len(cmd) : cmd[k] = <<"-c:a">>}) = 1

\* a Renderer command for an output named o.MP4
C9_Witness ==
    \E i \in 1..Len(invocations) :
        /\ invocations[i].stage = "renderer"
        /\ invocations[i].dst.name = <<"o", ".", "M", "P", "4">>

-----------------------------------------------------------------------------
(* C10 *)

\* C10: at most one invocation is in flight; an invocation is spawned only
\* after the one before it exited with 0; with N sources, invocation i <= N
\* is the Normalizer's for the i-th source in sorted order, invocation N + 1
\* is the Concatenator's and is spawned with N lines in the manifest,
\* invocation N + 2 is the Renderer's, and there is no other; a successful
\* run has made exactly N + 2.
C10_StrictLinearOrder ==
    LET N == Cardinality(RegularMatches) IN
    /\ Cardinality(InFlight) <= 1
    /\ Len(invocations) <= N + 2
    /\ \A i \in 1..Len(invocations) :
          /\ i > 1 => invocations[i - 1].rc = 0
          /\ i <= N => /\ invocations[i].stage = "normalizer"
                       /\ Rank(invocations[i].src) = i
          /\ i = N + 1 => /\ invocations[i].stage = "concatenator"
                          /\ i \in InFlight => Len(ManifestData(fs)) = N
          /\ i = N + 2 => invocations[i].stage = "renderer"
    /\ (Terminal /\ argv.status = "ok" /\ exitCode = 0) =>
          (Len(invocations) = N + 2 /\ InFlight = {})

\* the Renderer of a run over three sources is in flight
C10_Witness ==
    /\ pc = "render_wait"
    /\ Cardinality(RegularMatches) = 3
    /\ InFlight = {5}

====
